---- MODULE Spec2Model ----
(***************************************************************************)
(* Pliva Retreat booking backend (src/main.py, src/schemas.py).            *)
(*                                                                         *)
(* The state is the document store (collections offering, booking, user),  *)
(* whether the application process is up, the request being served and the *)
(* response being returned, and, for the interleaved specification, each   *)
(* worker thread's position inside create_booking.                         *)
(*                                                                         *)
(* A calendar date is modelled by its ordinal (days since 2024-05-30); the *)
(* store keeps dates the way the queries compare them, as ISO-8601 strings *)
(* "YYYY-MM-DD", modelled by the triple <<year, month, day>> whose         *)
(* lexicographic order is the order of the zero-padded strings.            *)
(***************************************************************************)
EXTENDS Integers, Sequences, FiniteSets, TLC

VARIABLES offering, booking, user, started, req, resp, pc, lreq, loff

vars == <<offering, booking, user, started, req, resp, pc, lreq, loff>>

(* ------------------------------ bounds --------------------------------- *)

\* last calendar day (ordinal) a request may name
MaxDay == 2

\* cap on the size of the booking collection
MaxBookings == 2

(* --------------------------- input domains ----------------------------- *)

\* Python's None where a document is expected
None == [none |-> TRUE]

\* Python's None as the value of the note field
NoNote == "None"

Dates == 0..MaxDay

Emails == {"ana@pliva.ba"}

Names == {"Ana"}

Passwords == {"pliva1"}

OfferingIds == {"van", "cabin", "tent"}

GuestCounts == {0, 1}

Notes == {NoNote, "late arrival"}

Procs == {1, 2}

(* ------------------------------ helpers -------------------------------- *)

\* hashlib.sha256(password).hexdigest(): an injective digest
hash_password(password) == <<"sha256", password>>

\* date.isoformat(): the ordinal's "YYYY-MM-DD", as <<year, month, day>>
isoformat(d) ==
    IF 30 + d <= 31 THEN <<2024, 5, 30 + d>> ELSE <<2024, 6, d - 1>>

\* date.fromisoformat(): back from the stored string to the date
fromisoformat(s) ==
    IF s[2] = 5 THEN s[3] - 30 ELSE s[3] + 1

\* the store's $lt on two strings: lexicographic order
StrLt(a, b) ==
    \/ a[1] < b[1]
    \/ a[1] = b[1] /\ a[2] < b[2]
    \/ a[1] = b[1] /\ a[2] = b[2] /\ a[3] < b[3]

\* the store's $gt on two strings
StrGt(a, b) == StrLt(b, a)

\* daterange changed to include end_date: range(days + 1)
daterangeInclusive(start_date, end_date) ==
    [n \in 1..(end_date - start_date + 1) |-> start_date + (n - 1)]

\* daterange(start_date, end_date): start_date + n for n in range(days)
daterange(start_date, end_date) ==
    [n \in 1..(end_date - start_date) |-> start_date + (n - 1)]

\* collection.find_one(filter): the first of the matching documents (given
\* in insertion order), or None
FindOne(matching) ==
    IF matching = <<>> THEN None ELSE Head(matching)

\* create_document(collection, data): insert-one; the new document's id is
\* its position in the collection
create_document(coll, doc) == Append(coll, doc)

\* the two offerings ensure_offerings seeds
SeedOfferings ==
    << [id |-> "van", title |-> "Fully Equipped Camper Van",
        price_per_night |-> 55, max_guests |-> 2],
       [id |-> "cabin", title |-> "Renovated Container Cabin",
        price_per_night |-> 65, max_guests |-> 3] >>

(* ------------------------- requests and responses ---------------------- *)

\* no request is being served
NoReq == [op |-> "none"]

\* no response is being returned
NoResp == [op |-> "none", out |-> "none", id |-> 0, total_price |-> 0,
           days |-> <<>>]

\* the JSON bodies POST /book may carry: the fields of CreateBookingRequest
\* and a note, which the request model does not declare and pydantic drops
BookReqs ==
    [op : {"book"}, user_email : Emails, offering_id : OfferingIds,
     start_date : Dates, end_date : Dates, guests : GuestCounts, note : Notes]

\* AvailabilityRequest
AvailReqs ==
    [op : {"avail"}, offering_id : OfferingIds, start_date : Dates,
     end_date : Dates]

\* RegisterRequest
RegisterReqs ==
    [op : {"register"}, name : Names, email : Emails, password : Passwords]

Requests == BookReqs \cup AvailReqs \cup RegisterReqs

\* a request reaches its route while the server is idle
Receive(r) ==
    /\ started
    /\ req = NoReq
    /\ resp = NoResp
    /\ req' = r
    /\ UNCHANGED <<offering, booking, user, started, resp, pc, lreq, loff>>

\* the response leaves the server
Reply ==
    /\ resp # NoResp
    /\ resp' = NoResp
    /\ UNCHANGED <<offering, booking, user, started, req, pc, lreq, loff>>

(* --------------------------- create_booking ---------------------------- *)

\* db["offering"].find_one({"id": req.offering_id})
FindOffering(r) ==
    LET Match(o) == o.id = r.offering_id
    IN  FindOne(SelectSeq(offering, Match))

\* the conflict filter changed to test end_date against req.end_date
ConflictMatchEndInside(b, r) ==
    /\ b.offering_id = r.offering_id
    /\ StrLt(b.start_date, isoformat(r.end_date))
    /\ StrGt(b.end_date, isoformat(r.end_date))
    /\ b.status # "cancelled"

\* the conflict filter changed to closed intervals ($lte, $gte)
ConflictMatchClosed(b, r) ==
    /\ b.offering_id = r.offering_id
    /\ ~StrGt(b.start_date, isoformat(r.end_date))
    /\ ~StrLt(b.end_date, isoformat(r.start_date))
    /\ b.status # "cancelled"

\* the conflict filter changed to drop the status clause
ConflictMatchAnyStatus(b, r) ==
    /\ b.offering_id = r.offering_id
    /\ StrLt(b.start_date, isoformat(r.end_date))
    /\ StrGt(b.end_date, isoformat(r.start_date))

\* the conflict filter changed to look only for bookings that start inside
\* the requested range
ConflictMatchStartInside(b, r) ==
    /\ b.offering_id = r.offering_id
    /\ ~StrLt(b.start_date, isoformat(r.start_date))
    /\ StrLt(b.start_date, isoformat(r.end_date))
    /\ b.status # "cancelled"

\* the conflict filter: same offering, overlapping, status != cancelled
ConflictMatch(b, r) ==
    /\ b.offering_id = r.offering_id
    /\ StrLt(b.start_date, isoformat(r.end_date))
    /\ StrGt(b.end_date, isoformat(r.start_date))
    /\ b.status # "cancelled"

\* db["booking"].find_one(conflict filter)
FindConflict(r) ==
    LET Match(b) == ConflictMatch(b, r)
    IN  FindOne(SelectSeq(booking, Match))

\* nights = (req.end_date - req.start_date).days
Nights(r) == r.end_date - r.start_date

\* the total changed to count the checkout day as a night
TotalInclusive(off, r) == off.price_per_night * (Nights(r) + 1)

\* total = float(off.get("price_per_night", 0)) * nights
Total(off, r) == off.price_per_night * Nights(r)

\* BookingSchema(...): the document built from the request
BookingDoc(off, r) ==
    [user_email |-> r.user_email,
     offering_id |-> r.offering_id,
     start_date |-> isoformat(r.start_date),
     end_date |-> isoformat(r.end_date),
     guests |-> r.guests,
     total_price |-> Total(off, r),
     status |-> "confirmed",
     note |-> NoNote]

\* BookingSchema's field constraints: guests >= 1, total_price >= 0
SchemaValid(doc) == doc.guests >= 1 /\ doc.total_price >= 0

\* the nights check changed to nights < 0
AdmitOutcomeNegativeOnly(off, r) ==
    IF Nights(r) < 0 THEN "InvalidRange"
    ELSE IF ~SchemaValid(BookingDoc(off, r)) THEN "ServerError"
    ELSE "ok"

\* the steps after the conflict check: the nights check, then the
\* construction of BookingSchema, whose ValidationError is not handled (500)
AdmitOutcome(off, r) ==
    IF Nights(r) <= 0 THEN "InvalidRange"
    ELSE IF ~SchemaValid(BookingDoc(off, r)) THEN "ServerError"
    ELSE "ok"

\* the handler changed to check the nights before it resolves the offering
BookOutcomeRangeFirst(r) ==
    IF Nights(r) <= 0 THEN "InvalidRange"
    ELSE IF FindOffering(r) = None THEN "NotFound"
    ELSE IF FindConflict(r) # None THEN "Conflict"
    ELSE AdmitOutcome(FindOffering(r), r)

\* the handler changed to check the nights before the conflict query
BookOutcomeRangeBeforeConflict(r) ==
    IF FindOffering(r) = None THEN "NotFound"
    ELSE IF Nights(r) <= 0 THEN "InvalidRange"
    ELSE IF FindConflict(r) # None THEN "Conflict"
    ELSE AdmitOutcome(FindOffering(r), r)

\* the outcome of the whole handler on the current store
BookOutcome(r) ==
    IF FindOffering(r) = None THEN "NotFound"
    ELSE IF FindConflict(r) # None THEN "Conflict"
    ELSE AdmitOutcome(FindOffering(r), r)

\* the response of POST /book
BookResp(out, id, total) ==
    [op |-> "book", out |-> out, id |-> id, total_price |-> total,
     days |-> <<>>]

\* the handler changed to insert the document before the nights check
create_booking_insert_first ==
    /\ req.op = "book"
    /\ IF BookOutcome(req) \in {"ok", "InvalidRange"}
       THEN /\ Len(booking) < MaxBookings
            /\ booking' = create_document(booking,
                                          BookingDoc(FindOffering(req), req))
            /\ resp' = IF BookOutcome(req) = "ok"
                       THEN BookResp("ok", Len(booking) + 1,
                                     Total(FindOffering(req), req))
                       ELSE BookResp("InvalidRange", 0, 0)
       ELSE /\ booking' = booking
            /\ resp' = BookResp(BookOutcome(req), 0, 0)
    /\ req' = NoReq
    /\ UNCHANGED <<offering, user, started, pc, lreq, loff>>

\* POST /book, served without interleaving
create_booking ==
    /\ req.op = "book"
    /\ IF BookOutcome(req) = "ok"
       THEN /\ Len(booking) < MaxBookings
            /\ booking' = create_document(booking,
                                          BookingDoc(FindOffering(req), req))
            /\ resp' = BookResp("ok", Len(booking) + 1,
                                Total(FindOffering(req), req))
       ELSE /\ booking' = booking
            /\ resp' = BookResp(BookOutcome(req), 0, 0)
    /\ req' = NoReq
    /\ UNCHANGED <<offering, user, started, pc, lreq, loff>>

(* -------------------------- check_availability ------------------------- *)

\* the availability filter changed to drop the offering_id clause
OverlapMatchAnyOffering(b, r) ==
    /\ StrLt(b.start_date, isoformat(r.end_date))
    /\ StrGt(b.end_date, isoformat(r.start_date))

\* the availability filter changed to leave cancelled bookings out
OverlapMatchNotCancelled(b, r) ==
    /\ b.offering_id = r.offering_id
    /\ StrLt(b.start_date, isoformat(r.end_date))
    /\ StrGt(b.end_date, isoformat(r.start_date))
    /\ b.status # "cancelled"

\* the availability filter: same offering, overlapping, any status
OverlapMatch(b, r) ==
    /\ b.offering_id = r.offering_id
    /\ StrLt(b.start_date, isoformat(r.end_date))
    /\ StrGt(b.end_date, isoformat(r.start_date))

\* the set unavailable changed to block each booking's checkout day too
UnavailableInclusive(r) ==
    LET Match(b) == OverlapMatch(b, r)
        bookings == SelectSeq(booking, Match)
    IN  UNION { { isoformat(fromisoformat(bookings[i].start_date) + (n - 1))
                  : n \in 1..(fromisoformat(bookings[i].end_date)
                              - fromisoformat(bookings[i].start_date) + 1) }
                : i \in 1..Len(bookings) }

\* the set unavailable changed to leave out each booking's first day
UnavailableSkipFirst(r) ==
    LET Match(b) == OverlapMatch(b, r)
        bookings == SelectSeq(booking, Match)
    IN  UNION { { isoformat(fromisoformat(bookings[i].start_date) + (n - 1))
                  : n \in 2..(fromisoformat(bookings[i].end_date)
                              - fromisoformat(bookings[i].start_date)) }
                : i \in 1..Len(bookings) }

\* the set unavailable: every day of every matching booking, as a string
Unavailable(r) ==
    LET Match(b) == OverlapMatch(b, r)
        bookings == SelectSeq(booking, Match)
    IN  UNION { { isoformat(daterange(fromisoformat(bookings[i].start_date),
                                      fromisoformat(bookings[i].end_date))[n])
                  : n \in 1..(fromisoformat(bookings[i].end_date)
                              - fromisoformat(bookings[i].start_date)) }
                : i \in 1..Len(bookings) }

\* the list days: one entry per day of daterange(start_date, end_date)
Days(r) ==
    [n \in 1..Len(daterange(r.start_date, r.end_date)) |->
        [date |-> isoformat(daterange(r.start_date, r.end_date)[n]),
         available |-> isoformat(daterange(r.start_date, r.end_date)[n])
                          \notin Unavailable(r)]]

\* POST /availability
check_availability ==
    /\ req.op = "avail"
    /\ resp' = [op |-> "avail", out |-> "ok", id |-> 0, total_price |-> 0,
                days |-> Days(req)]
    /\ req' = NoReq
    /\ UNCHANGED <<offering, booking, user, started, pc, lreq, loff>>

(* ------------------------------ register ------------------------------- *)

\* str.lower() on the addresses of AuthEmails
Lower(email) == IF email = "Ana@pliva.ba" THEN "ana@pliva.ba" ELSE email

\* the user lookup changed to compare addresses without regard to case
FindUserAnyCase(email) ==
    LET Match(u) == Lower(u.email) = Lower(email)
    IN  FindOne(SelectSeq(user, Match))

\* db["user"].find_one({"email": payload.email})
FindUser(email) ==
    LET Match(u) == u.email = email
    IN  FindOne(SelectSeq(user, Match))

\* UserSchema(...)
UserDoc(r) ==
    [name |-> r.name, email |-> r.email,
     password_hash |-> hash_password(r.password), avatar_url |-> NoNote]

\* POST /register
register ==
    /\ req.op = "register"
    /\ IF FindUser(req.email) # None
       THEN /\ user' = user
            /\ resp' = [op |-> "register", out |-> "AlreadyExists", id |-> 0,
                        total_price |-> 0, days |-> <<>>]
       ELSE /\ user' = create_document(user, UserDoc(req))
            /\ resp' = [op |-> "register", out |-> "ok", id |-> Len(user) + 1,
                        total_price |-> 0, days |-> <<>>]
    /\ req' = NoReq
    /\ UNCHANGED <<offering, booking, started, pc, lreq, loff>>

(* -------------------------------- login -------------------------------- *)

\* the credentials check changed to accept any password of a known user
LoginOutcomeNoPassword(r) ==
    IF FindUser(r.email) = None THEN "Unauthorized" ELSE "ok"

\* not u or u.get("password_hash") != hash_password(payload.password)
LoginOutcome(r) ==
    IF FindUser(r.email) = None THEN "Unauthorized"
    ELSE IF FindUser(r.email).password_hash # hash_password(r.password)
         THEN "Unauthorized"
    ELSE "ok"

\* the response of POST /login; the token digests the email and the clock
LoginResp(r) ==
    IF LoginOutcome(r) = "ok"
    THEN [op |-> "login", out |-> "ok", id |-> 0, total_price |-> 0,
          days |-> <<>>,
          token |-> hash_password(<<r.email, "|", "utcnow">>),
          name |-> FindUser(r.email).name,
          email |-> FindUser(r.email).email]
    ELSE [op |-> "login", out |-> "Unauthorized", id |-> 0,
          total_price |-> 0, days |-> <<>>, token |-> NoNote,
          name |-> NoNote, email |-> NoNote]

\* POST /login
login ==
    /\ req.op = "login"
    /\ resp' = LoginResp(req)
    /\ req' = NoReq
    /\ UNCHANGED <<offering, booking, user, started, pc, lreq, loff>>

(* ----------------------------- lifecycle ------------------------------- *)

\* ensure_offerings changed to seed without looking at the collection
ensure_offerings_always ==
    create_document(create_document(offering, SeedOfferings[1]),
                    SeedOfferings[2])

\* ensure_offerings(): seed the two offerings when the collection is empty
ensure_offerings ==
    IF offering # <<>> THEN offering
    ELSE create_document(create_document(offering, SeedOfferings[1]),
                         SeedOfferings[2])

\* process start: the module is imported, ensure_offerings() runs
Start ==
    /\ ~started
    /\ started' = TRUE
    /\ offering' = ensure_offerings
    /\ UNCHANGED <<booking, user, req, resp, pc, lreq, loff>>

\* process exit between requests; the store keeps its documents
Stop ==
    /\ started
    /\ req = NoReq
    /\ resp = NoResp
    /\ \A p \in Procs : pc[p] = "idle"
    /\ started' = FALSE
    /\ UNCHANGED <<offering, booking, user, req, resp, pc, lreq, loff>>

\* a booking's status set to cancelled by an operation outside the service,
\* between two requests
CancelBooking(i) ==
    /\ req = NoReq
    /\ resp = NoResp
    /\ booking[i].status # "cancelled"
    /\ booking' = [booking EXCEPT ![i].status = "cancelled"]
    /\ UNCHANGED <<offering, user, started, req, resp, pc, lreq, loff>>

(* --------------------------- specification ----------------------------- *)

Init ==
    /\ offering = <<>>
    /\ booking = <<>>
    /\ user = <<>>
    /\ started = FALSE
    /\ req = NoReq
    /\ resp = NoResp
    /\ pc = [p \in Procs |-> "idle"]
    /\ lreq = [p \in Procs |-> NoReq]
    /\ loff = [p \in Procs |-> None]

Next ==
    \/ Start
    \/ Stop
    \/ \E r \in Requests : Receive(r)
    \/ create_booking
    \/ check_availability
    \/ register
    \/ Reply
    \/ \E i \in 1..Len(booking) : CancelBooking(i)

\* requests served one at a time
Spec == Init /\ [][Next]_vars

(* ------------------- registration and login on their own --------------- *)

\* addresses that differ only in the case of the local part
AuthEmails == {"ana@pliva.ba", "Ana@pliva.ba"}

AuthNames == {"Ana", "Ana K"}

AuthPasswords == {"pliva1", "pliva2"}

\* RegisterRequest and LoginRequest
AuthReqs ==
    [op : {"register"}, name : AuthNames, email : AuthEmails,
     password : AuthPasswords]
    \cup [op : {"login"}, email : AuthEmails, password : AuthPasswords]

NextAuth ==
    \/ Start
    \/ \E r \in AuthReqs : Receive(r)
    \/ register
    \/ login
    \/ Reply

\* /register and /login served one at a time
SpecAuth == Init /\ [][NextAuth]_vars

(* ------------------ create_booking, one store call at a time ----------- *)

\* the requests the interleaved specification draws from
ConcReqs == {r \in BookReqs : r.guests = 1 /\ r.note = NoNote}

InFlight == Cardinality({p \in Procs : pc[p] # "idle"})

\* lines 167-170: a worker thread takes a request and resolves the offering
book_find_offering(p, r) ==
    /\ started
    /\ pc[p] = "idle"
    /\ Len(booking) + InFlight < MaxBookings
    /\ IF FindOffering(r) = None
       THEN /\ resp' = BookResp("NotFound", 0, 0)
            /\ UNCHANGED <<pc, lreq, loff>>
       ELSE /\ pc' = [pc EXCEPT ![p] = "conflict_check"]
            /\ lreq' = [lreq EXCEPT ![p] = r]
            /\ loff' = [loff EXCEPT ![p] = FindOffering(r)]
            /\ resp' = resp
    /\ UNCHANGED <<offering, booking, user, started, req>>

\* lines 172-182: the conflict query and its early return
book_conflict_check(p) ==
    /\ pc[p] = "conflict_check"
    /\ IF FindConflict(lreq[p]) # None
       THEN /\ resp' = BookResp("Conflict", 0, 0)
            /\ pc' = [pc EXCEPT ![p] = "idle"]
            /\ lreq' = [lreq EXCEPT ![p] = NoReq]
            /\ loff' = [loff EXCEPT ![p] = None]
       ELSE /\ pc' = [pc EXCEPT ![p] = "admit"]
            /\ UNCHANGED <<resp, lreq, loff>>
    /\ UNCHANGED <<offering, booking, user, started, req>>

\* lines 184-201: the nights check, the document and the insert
book_admit(p) ==
    /\ pc[p] = "admit"
    /\ IF AdmitOutcome(loff[p], lreq[p]) = "ok"
       THEN /\ booking' = create_document(booking,
                                          BookingDoc(loff[p], lreq[p]))
            /\ resp' = BookResp("ok", Len(booking) + 1,
                                Total(loff[p], lreq[p]))
       ELSE /\ booking' = booking
            /\ resp' = BookResp(AdmitOutcome(loff[p], lreq[p]), 0, 0)
    /\ pc' = [pc EXCEPT ![p] = "idle"]
    /\ lreq' = [lreq EXCEPT ![p] = NoReq]
    /\ loff' = [loff EXCEPT ![p] = None]
    /\ UNCHANGED <<offering, user, started, req>>

NextConc ==
    \/ Start
    \/ \E p \in Procs, r \in ConcReqs : book_find_offering(p, r)
    \/ \E p \in Procs : book_conflict_check(p)
    \/ \E p \in Procs : book_admit(p)

\* requests served by concurrent worker threads
SpecConc == Init /\ [][NextConc]_vars

(* --------------------- register, one store call at a time -------------- *)

\* cap on the size of the user collection under interleaved registration
MaxUsers == 2

\* the register requests the interleaved specification draws from
ConcRegReqs == {r \in AuthReqs : r.op = "register"}

\* line 108: a worker thread takes a request and looks the email up
reg_find_user(p, r) ==
    /\ started
    /\ pc[p] = "idle"
    /\ Len(user) + InFlight < MaxUsers
    /\ IF FindUser(r.email) # None
       THEN /\ resp' = [op |-> "register", out |-> "AlreadyExists",
                        id |-> 0, total_price |-> 0, days |-> <<>>]
            /\ UNCHANGED <<pc, lreq>>
       ELSE /\ pc' = [pc EXCEPT ![p] = "insert_user"]
            /\ lreq' = [lreq EXCEPT ![p] = r]
            /\ resp' = resp
    /\ UNCHANGED <<offering, booking, user, started, req, loff>>

\* lines 111-118: the document and the insert
reg_insert(p) ==
    /\ pc[p] = "insert_user"
    /\ user' = create_document(user, UserDoc(lreq[p]))
    /\ resp' = [op |-> "register", out |-> "ok", id |-> Len(user) + 1,
                total_price |-> 0, days |-> <<>>]
    /\ pc' = [pc EXCEPT ![p] = "idle"]
    /\ lreq' = [lreq EXCEPT ![p] = NoReq]
    /\ UNCHANGED <<offering, booking, started, req, loff>>

NextConcReg ==
    \/ Start
    \/ \E p \in Procs, r \in ConcRegReqs : reg_find_user(p, r)
    \/ \E p \in Procs : reg_insert(p)

\* /register served by concurrent worker threads
SpecConcReg == Init /\ [][NextConcReg]_vars

(* ------------------------------- claims -------------------------------- *)

\* the offering collection holds a record with the request's offering_id
Known(r) == \E i \in 1..Len(offering) : offering[i].id = r.offering_id

\* stored booking b and the range [s2, e2) of request r overlap as
\* half-open intervals of calendar days
Overlaps(b, r) ==
    /\ fromisoformat(b.start_date) < r.end_date
    /\ fromisoformat(b.end_date) > r.start_date

\* the store holds a non-cancelled booking of r's offering overlapping r
Blocking(r) ==
    \E i \in 1..Len(booking) :
        /\ booking[i].offering_id = r.offering_id
        /\ booking[i].status # "cancelled"
        /\ Overlaps(booking[i], r)

\* this step is the service of the POST /book request in req
BookServed == req.op = "book" /\ req' = NoReq

\* this step admits the request in req: it answers ok and the collection
\* grows by one booking of the request's offering and range
Admitted ==
    /\ resp'.out = "ok"
    /\ Len(booking') = Len(booking) + 1
    /\ booking'[Len(booking')].offering_id = req.offering_id
    /\ booking'[Len(booking')].start_date = isoformat(req.start_date)
    /\ booking'[Len(booking')].end_date = isoformat(req.end_date)

\* C1: under every interleaving of concurrent createBooking requests, no
\* reachable booking collection holds two non-cancelled bookings of one
\* offering whose half-open date ranges overlap.
C1_NoDoubleBooking ==
    \A i, j \in 1..Len(booking) :
        ( /\ i < j
          /\ booking[i].offering_id = booking[j].offering_id
          /\ booking[i].status # "cancelled"
          /\ booking[j].status # "cancelled" )
        => ~ ( /\ fromisoformat(booking[i].start_date)
                    < fromisoformat(booking[j].end_date)
               /\ fromisoformat(booking[i].end_date)
                    > fromisoformat(booking[j].start_date) )

\* C2: a createBooking on an existing offering fails with Conflict and
\* persists nothing whenever the store holds a non-cancelled booking of
\* that offering with start < e2 and end > s2.
C2_ConflictRejected ==
    [][ (BookServed /\ Known(req) /\ Blocking(req))
        => (resp'.out = "Conflict" /\ booking' = booking) ]_vars

\* C2's case: a request has just been refused with Conflict while a
\* confirmed booking is stored
C2_Witness ==
    /\ resp.op = "book"
    /\ resp.out = "Conflict"
    /\ \E i \in 1..Len(booking) : booking[i].status = "confirmed"

\* C3 as stated: every createBooking on an existing offering with
\* end_date > start_date that overlaps no stored non-cancelled booking of
\* the offering is admitted, whatever its guest count.
C3_AdmittedAnyGuests ==
    [][ ( /\ BookServed
          /\ Known(req)
          /\ req.end_date > req.start_date
          /\ ~Blocking(req) )
        => Admitted ]_vars

\* C3, amended: a createBooking on an existing offering with
\* end_date > start_date and guests >= 1 that overlaps no stored
\* non-cancelled booking of the offering is admitted, ranges that only touch
\* an existing booking at a boundary included.
C3_NonOverlappingAdmitted ==
    [][ ( /\ BookServed
          /\ Known(req)
          /\ req.end_date > req.start_date
          /\ req.guests >= 1
          /\ ~Blocking(req) )
        => Admitted ]_vars

\* C3's case: B1 was admitted, then B2 of the same offering, starting on
\* B1's checkout day, has just been admitted, both still confirmed
C3_Witness ==
    /\ resp.op = "book"
    /\ resp.out = "ok"
    /\ resp.id = 2
    /\ Len(booking) = 2
    /\ booking[1].offering_id = booking[2].offering_id
    /\ booking[1].status = "confirmed"
    /\ booking[2].status = "confirmed"
    /\ booking[2].start_date = booking[1].end_date

\* some stored booking of r's offering overlaps r, and every one that does
\* is cancelled
OnlyCancelledOverlap(r) ==
    /\ \E i \in 1..Len(booking) :
           /\ booking[i].offering_id = r.offering_id
           /\ Overlaps(booking[i], r)
    /\ ~Blocking(r)

\* C4 as stated: a createBooking on an existing offering with
\* end_date > start_date whose range overlaps only cancelled bookings of the
\* offering is admitted, whatever its guest count.
C4_CancelledAnyGuests ==
    [][ ( /\ BookServed
          /\ Known(req)
          /\ req.end_date > req.start_date
          /\ OnlyCancelledOverlap(req) )
        => Admitted ]_vars

\* C4, amended: a cancelled booking never blocks admission: a createBooking
\* on an existing offering with end_date > start_date and guests >= 1 whose
\* range overlaps only cancelled bookings of the offering is admitted.
C4_CancelledNeverBlocks ==
    [][ ( /\ BookServed
          /\ Known(req)
          /\ req.end_date > req.start_date
          /\ req.guests >= 1
          /\ OnlyCancelledOverlap(req) )
        => Admitted ]_vars

\* C4's case: a booking has just been admitted over the days of a cancelled
\* booking of the same offering
C4_Witness ==
    /\ resp.op = "book"
    /\ resp.out = "ok"
    /\ resp.id = 2
    /\ Len(booking) = 2
    /\ booking[1].status = "cancelled"
    /\ booking[2].status = "confirmed"
    /\ booking[1].offering_id = booking[2].offering_id
    /\ fromisoformat(booking[1].start_date) < fromisoformat(booking[2].end_date)
    /\ fromisoformat(booking[1].end_date) > fromisoformat(booking[2].start_date)

\* C5: no createBooking with end_date <= start_date is admitted: it fails
\* with InvalidRange when the offering exists and no conflicting booking
\* matches, and every persisted booking has end_date > start_date.
C5_InvalidRangeRejected ==
    [][ /\ ( (BookServed /\ req.end_date <= req.start_date)
             => /\ resp'.out # "ok"
                /\ booking' = booking
                /\ (Known(req) /\ ~Blocking(req))
                       => resp'.out = "InvalidRange" )
        /\ \A i \in 1..Len(booking') :
               fromisoformat(booking'[i].end_date)
                   > fromisoformat(booking'[i].start_date) ]_vars

\* C5's case: a request has just been refused with InvalidRange while the
\* store holds a booking
C5_Witness ==
    /\ resp.op = "book"
    /\ resp.out = "InvalidRange"
    /\ Len(booking) >= 1

\* C6: a createBooking whose offering_id matches no offering record fails
\* with NotFound and persists nothing, whatever its dates and whatever
\* bookings are stored.
C6_UnknownOfferingNotFound ==
    [][ (BookServed /\ ~Known(req))
        => (resp'.out = "NotFound" /\ booking' = booking) ]_vars

\* C6's case: a request has just been refused with NotFound while the store
\* holds a confirmed booking
C6_Witness ==
    /\ resp.op = "book"
    /\ resp.out = "NotFound"
    /\ \E i \in 1..Len(booking) : booking[i].status = "confirmed"

\* C7: for every admitted booking the total_price persisted and the
\* total_price returned are equal, and equal the offering's price_per_night
\* times the whole days end_date - start_date.
C7_TotalPrice ==
    [][ (BookServed /\ resp'.out = "ok")
        => /\ Len(booking') >= 1
           /\ resp'.total_price = booking'[Len(booking')].total_price
           /\ \E i \in 1..Len(offering) :
                  /\ offering[i].id = req.offering_id
                  /\ resp'.total_price
                        = offering[i].price_per_night
                            * (req.end_date - req.start_date) ]_vars

\* C7's case: the van (55 per night) has just been booked for two nights,
\* returned and persisted at 110
C7_Witness ==
    /\ resp.op = "book"
    /\ resp.out = "ok"
    /\ resp.total_price = 110
    /\ booking[resp.id].offering_id = "van"
    /\ booking[resp.id].total_price = 110
    /\ fromisoformat(booking[resp.id].end_date)
           - fromisoformat(booking[resp.id].start_date) = 2

\* C8: every booking persisted by createBooking has status confirmed and
\* carries the offering id, date range, guest count and note supplied in
\* the request.
C8_CarriesRequestFields ==
    [][ (BookServed /\ resp'.out = "ok")
        => /\ Len(booking') >= 1
           /\ booking'[Len(booking')].status = "confirmed"
           /\ booking'[Len(booking')].offering_id = req.offering_id
           /\ booking'[Len(booking')].start_date = isoformat(req.start_date)
           /\ booking'[Len(booking')].end_date = isoformat(req.end_date)
           /\ booking'[Len(booking')].guests = req.guests
           /\ booking'[Len(booking')].note = req.note ]_vars

\* C9: a successful createBooking adds exactly one booking and leaves every
\* offering, every user and every earlier booking unchanged; one that fails
\* with NotFound, Conflict or InvalidRange leaves all three collections
\* unchanged.
C9_Frame ==
    [][ BookServed
        => /\ offering' = offering
           /\ user' = user
           /\ resp'.out = "ok"
                  => /\ Len(booking') = Len(booking) + 1
                     /\ SubSeq(booking', 1, Len(booking)) = booking
           /\ resp'.out \in {"NotFound", "Conflict", "InvalidRange"}
                  => booking' = booking ]_vars

\* C9's case: with a user registered and a booking stored, a second booking
\* has just been admitted
C9_Witness ==
    /\ resp.op = "book"
    /\ resp.out = "ok"
    /\ resp.id = 2
    /\ Len(booking) = 2
    /\ Len(user) >= 1
    /\ Len(offering) = 2

\* this step is the service of the POST /availability request in req
AvailServed == req.op = "avail" /\ req' = NoReq

\* C10: checkAvailability returns exactly one entry per calendar day of
\* [start_date, end_date), in strictly ascending date order, end_date
\* excluded; when end_date <= start_date the result is empty and no error
\* is raised.
C10_OneEntryPerDay ==
    [][ AvailServed
        => /\ resp'.op = "avail"
           /\ resp'.out = "ok"
           /\ \A d \in Dates :
                  Cardinality({k \in 1..Len(resp'.days) :
                                  resp'.days[k].date = isoformat(d)})
                      = IF req.start_date <= d /\ d < req.end_date
                        THEN 1 ELSE 0
           /\ \A k \in 1..Len(resp'.days) :
                  /\ fromisoformat(resp'.days[k].date) \in Dates
                  /\ resp'.days[k].date # isoformat(req.end_date)
           /\ \A k \in 1..(Len(resp'.days) - 1) :
                  /\ fromisoformat(resp'.days[k].date)
                         < fromisoformat(resp'.days[k + 1].date)
                  /\ StrLt(resp'.days[k].date, resp'.days[k + 1].date)
           /\ (req.end_date <= req.start_date) => resp'.days = <<>> ]_vars

\* C10's case: the range 2024-05-30 to 2024-06-01 has just been answered
\* with its two days, the last days of May
C10_Witness ==
    /\ resp.op = "avail"
    /\ Len(resp.days) = 2
    /\ resp.days[1].date = <<2024, 5, 30>>
    /\ resp.days[2].date = <<2024, 5, 31>>

\* some stored booking of offering id, of any status, covers day d:
\* start_date <= d < end_date
Booked(id, d) ==
    \E i \in 1..Len(booking) :
        /\ booking[i].offering_id = id
        /\ fromisoformat(booking[i].start_date) <= d
        /\ d < fromisoformat(booking[i].end_date)

\* C11: for every day d of the range queried by checkAvailability,
\* available is false exactly when some stored booking of the offering has
\* start_date <= d < end_date; a booking's checkout day is available.
C11_AvailableIffNotBooked ==
    [][ AvailServed
        => \A d \in Dates :
               (req.start_date <= d /\ d < req.end_date)
               => \E k \in 1..Len(resp'.days) :
                      /\ resp'.days[k].date = isoformat(d)
                      /\ resp'.days[k].available
                             = ~Booked(req.offering_id, d) ]_vars

\* C11's case: with a single confirmed booking of the night of 2024-05-30,
\* the range 2024-05-30 to 2024-06-01 has just been answered: the booked
\* day unavailable, the checkout day available
C11_Witness ==
    /\ resp.op = "avail"
    /\ Len(booking) = 1
    /\ booking[1].status = "confirmed"
    /\ booking[1].start_date = <<2024, 5, 30>>
    /\ booking[1].end_date = <<2024, 5, 31>>
    /\ resp.days = << [date |-> <<2024, 5, 30>>, available |-> FALSE],
                      [date |-> <<2024, 5, 31>>, available |-> TRUE] >>

\* C12: in every state reachable by createBooking requests,
\* checkAvailability for an offering_id that matches no offering record
\* reports every queried day as available, and no stored booking names an
\* unknown offering.
C12_UnknownOfferingAllAvailable ==
    [][ /\ (AvailServed /\ ~Known(req))
            => \A k \in 1..Len(resp'.days) : resp'.days[k].available
        /\ \A i \in 1..Len(booking') :
               \E j \in 1..Len(offering') :
                   offering'[j].id = booking'[i].offering_id ]_vars

\* C12's case: while the van and the cabin are both booked for both nights,
\* a two-day range has just been answered as fully available (so it was
\* asked of an unknown offering)
C12_Witness ==
    /\ resp.op = "avail"
    /\ Len(resp.days) = 2
    /\ \A k \in 1..2 : resp.days[k].available
    /\ Len(booking) = 2
    /\ {booking[1].offering_id, booking[2].offering_id} = {"van", "cabin"}
    /\ \A i \in 1..2 :
           /\ booking[i].status = "confirmed"
           /\ booking[i].start_date = <<2024, 5, 30>>
           /\ booking[i].end_date = <<2024, 6, 1>>

\* this step is the service of the POST /register request in req
RegServed == req.op = "register" /\ req' = NoReq

\* a stored user has exactly this email
EmailStored(email) == \E i \in 1..Len(user) : user[i].email = email

\* C13: register with an email that exactly equals a stored user's email
\* fails with AlreadyExists and leaves the user collection unchanged;
\* otherwise it stores exactly one new user; so after any sequence of
\* register requests served one at a time no two users share an email.
C13_RegisterUnique ==
    [][ /\ (RegServed /\ EmailStored(req.email))
            => (resp'.out = "AlreadyExists" /\ user' = user)
        /\ (RegServed /\ ~EmailStored(req.email))
            => /\ resp'.out = "ok"
               /\ Len(user') = Len(user) + 1
               /\ SubSeq(user', 1, Len(user)) = user
               /\ user'[Len(user')].email = req.email
        /\ \A i, j \in 1..Len(user') :
               user'[i].email = user'[j].email => i = j ]_vars

\* C13's case: a second user whose address differs from the first one's
\* only in case has just been registered
C13_Witness ==
    /\ resp.op = "register"
    /\ resp.out = "ok"
    /\ resp.id = 2
    /\ Len(user) = 2
    /\ user[1].email # user[2].email
    /\ Lower(user[1].email) = Lower(user[2].email)

\* this step is the service of the POST /login request in req
LoginServed == req.op = "login" /\ req' = NoReq

\* a stored user has this email and the digest of this password
Credentials(email, password) ==
    \E i \in 1..Len(user) :
        /\ user[i].email = email
        /\ user[i].password_hash = hash_password(password)

\* C14: login fails with Unauthorized exactly when no stored user has the
\* given email or the digest of the password differs from that user's
\* stored hash; a user stored by register(name, email, p) carries name,
\* email and the digest of p, so login(email, p) then succeeds with that
\* user's name and email; login never modifies the store.
C14_LoginCredentials ==
    [][ /\ LoginServed
            => /\ resp'.out \in {"ok", "Unauthorized"}
               /\ (resp'.out = "Unauthorized")
                      = ~Credentials(req.email, req.password)
               /\ resp'.out = "ok"
                      => /\ resp'.email = req.email
                         /\ \E i \in 1..Len(user) :
                                /\ user[i].email = req.email
                                /\ user[i].name = resp'.name
               /\ user' = user
               /\ offering' = offering
               /\ booking' = booking
        /\ (RegServed /\ resp'.out = "ok")
            => /\ user'[Len(user')].name = req.name
               /\ user'[Len(user')].email = req.email
               /\ user'[Len(user')].password_hash
                      = hash_password(req.password) ]_vars

\* C14's case: of two registered users with different names, the second
\* has just logged in and got its own name and email back
C14_Witness ==
    /\ resp.op = "login"
    /\ resp.out = "ok"
    /\ Len(user) = 2
    /\ user[1].name # user[2].name
    /\ resp.name = user[2].name
    /\ resp.email = user[2].email

\* stored booking i blocks admission: its status is not cancelled
Live(i) == booking[i].status # "cancelled"

\* the nights stored booking i reserves, as a set of calendar days
NightsOf(i) ==
    { d \in 0..31 : /\ fromisoformat(booking[i].start_date) <= d
                    /\ d < fromisoformat(booking[i].end_date) }

\* C15: with createBooking requests served one at a time, after any
\* sequence of admissions and of status changes to cancelled, no two
\* non-cancelled bookings of the same offering have overlapping half-open
\* date ranges (they share no night).
C15_SequentialNoOverlap ==
    \A i \in 1..Len(booking) :
        \A j \in (1..Len(booking)) \ {i} :
            (Live(i) /\ Live(j)
                /\ booking[i].offering_id = booking[j].offering_id)
            => NightsOf(i) \cap NightsOf(j) = {}

\* C15's case: a booking was admitted and cancelled, and a second booking
\* of the same offering and the same nights was then admitted; the server
\* is idle again
C15_Witness ==
    /\ req = NoReq
    /\ resp = NoResp
    /\ Len(booking) = 2
    /\ ~Live(1)
    /\ Live(2)
    /\ booking[1].offering_id = booking[2].offering_id
    /\ NightsOf(1) = NightsOf(2)
    /\ NightsOf(1) # {}

\* the availability request for the offering and range of booking request r
AvailOf(r) ==
    [op |-> "avail", offering_id |-> r.offering_id,
     start_date |-> r.start_date, end_date |-> r.end_date]

\* checkAvailability, asked now for r's offering and range, reports every
\* day as available
AllAvailable(r) ==
    \A k \in 1..Len(Days(AvailOf(r))) : Days(AvailOf(r))[k].available

\* C16 as stated: if checkAvailability reports every day of a non-empty
\* range of an existing offering as available, a createBooking for that
\* offering and range on the same store is admitted, whatever its guest
\* count.
C16_AvailableThenAdmittedAnyGuests ==
    [][ ( /\ BookServed
          /\ Known(req)
          /\ req.end_date > req.start_date
          /\ AllAvailable(req) )
        => Admitted ]_vars

\* C16, amended: if checkAvailability reports every day of a non-empty
\* range of an existing offering as available, a createBooking with
\* guests >= 1 for that offering and range on the same store is admitted;
\* it cannot fail with Conflict.
C16_AvailableThenAdmitted ==
    [][ ( /\ BookServed
          /\ Known(req)
          /\ req.end_date > req.start_date
          /\ req.guests >= 1
          /\ AllAvailable(req) )
        => Admitted ]_vars

\* C16's case: with a confirmed booking stored, a booking of the same
\* offering that ends on the stored one's first day (all of its days
\* available) has just been admitted
C16_Witness ==
    /\ resp.op = "book"
    /\ resp.out = "ok"
    /\ resp.id = 2
    /\ Len(booking) = 2
    /\ booking[1].offering_id = booking[2].offering_id
    /\ booking[1].status = "confirmed"
    /\ booking[2].status = "confirmed"
    /\ booking[2].end_date = booking[1].start_date

\* a cancelled stored booking of offering id covers day d
CancelledCovers(id, d) ==
    \E i \in 1..Len(booking) :
        /\ booking[i].offering_id = id
        /\ booking[i].status = "cancelled"
        /\ fromisoformat(booking[i].start_date) <= d
        /\ d < fromisoformat(booking[i].end_date)

\* checkAvailability reports every queried day that a cancelled booking of
\* the offering covers as unavailable
CancelledDaysUnavailable ==
    AvailServed
    => \A k \in 1..Len(resp'.days) :
           CancelledCovers(req.offering_id,
                           fromisoformat(resp'.days[k].date))
           => ~resp'.days[k].available

\* C17 as stated: checkAvailability reports every day covered by a
\* cancelled booking as unavailable, and a createBooking over those same
\* days (overlapping cancelled bookings only) is admitted, whatever its
\* guest count.
C17_CancelledBlocksAnyGuests ==
    [][ /\ CancelledDaysUnavailable
        /\ ( /\ BookServed
             /\ Known(req)
             /\ req.end_date > req.start_date
             /\ OnlyCancelledOverlap(req) )
           => Admitted ]_vars

\* C17, amended: checkAvailability applies no status filter: every day
\* covered by a cancelled booking is reported as available=false for that
\* offering, even though a createBooking with guests >= 1 over those same
\* days, overlapping no non-cancelled booking, is admitted while
\* checkAvailability does not report its range as available.
C17_CancelledBlocksAvailabilityOnly ==
    [][ /\ CancelledDaysUnavailable
        /\ ( /\ BookServed
             /\ Known(req)
             /\ req.end_date > req.start_date
             /\ req.guests >= 1
             /\ OnlyCancelledOverlap(req) )
           => (Admitted /\ ~AllAvailable(req)) ]_vars

\* C17's case: the van's only booking, of both nights, is cancelled, and
\* a query of those two days has just been answered with both unavailable
C17_Witness ==
    /\ resp.op = "avail"
    /\ Len(booking) = 1
    /\ booking[1].status = "cancelled"
    /\ NightsOf(1) = {0, 1}
    /\ Len(resp.days) = 2
    /\ \A k \in 1..2 : ~resp.days[k].available

\* C18: createBooking reports the first failing check in the order
\* NotFound, Conflict, InvalidRange: an unknown offering yields NotFound
\* whatever the range, and a request with end_date <= start_date that
\* still matches a non-cancelled booking (start < end_date and
\* end > start_date) yields Conflict, not InvalidRange.
C18_CheckOrder ==
    [][ BookServed
        => /\ ~Known(req) => resp'.out = "NotFound"
           /\ (Known(req) /\ Blocking(req)) => resp'.out = "Conflict"
           /\ (Known(req) /\ ~Blocking(req)
                  /\ req.end_date <= req.start_date)
                  => resp'.out = "InvalidRange"
           /\ resp'.out = "InvalidRange"
                  => (Known(req) /\ ~Blocking(req)) ]_vars

\* C18's case: the store's only booking is confirmed and reserves both
\* nights, so a zero-night range lies strictly inside it, and a request
\* has just been refused with Conflict
C18_Witness ==
    /\ resp.op = "book"
    /\ resp.out = "Conflict"
    /\ Len(booking) = 1
    /\ Live(1)
    /\ NightsOf(1) = {0, 1}

\* this step is a start-up of the process
StartUp == ~started /\ started'

\* C19: ensure_offerings inserts the offerings 'van' and 'cabin' only when
\* the offering collection is empty and nothing otherwise, so after any
\* number of sequential start-ups offering ids are unique, and no request
\* operation creates, changes or deletes an offering.
C19_SeedIdempotent ==
    [][ /\ (StartUp /\ offering = <<>>)
            => /\ Len(offering') = 2
               /\ offering'[1].id = "van"
               /\ offering'[2].id = "cabin"
        /\ (StartUp /\ offering # <<>>) => offering' = offering
        /\ ~StartUp => offering' = offering
        /\ \A i, j \in 1..Len(offering') :
               offering'[i].id = offering'[j].id => i = j ]_vars

\* C19's case: the process was started, seeded the offerings, admitted a
\* booking and stopped; the next start-up finds the collection seeded
C19_Witness ==
    /\ ~started
    /\ Len(offering) = 2
    /\ offering[1].id = "van"
    /\ offering[2].id = "cabin"
    /\ Len(booking) >= 1

\* C20: under every interleaving of concurrent register requests, the
\* user collection never holds two users with the same email.
C20_UniqueEmailConcurrent ==
    \A i \in 1..Len(user) :
        \A j \in 1..Len(user) :
            user[i].email = user[j].email => i = j

====
